---- MODULE Spec2Model ----
(***************************************************************************)
(* Dispatch and job-lifecycle subsystem of astra-web.                      *)
(*                                                                         *)
(* The repository holds two generations of the same subsystem side by      *)
(* side: astra_web/host_localizer (synchronous, one command per dispatch)  *)
(* and astra_web/actor (coroutines, a batch of tasks per dispatch).  Both  *)
(* are modelled; definitions of the first carry the prefix HL.             *)
(***************************************************************************)
EXTENDS Integers, Sequences, FiniteSets, TLC

\* ------------------------------------------------------------------ bounds

\* coroutines that may have a SLURM call open at the same time
MaxCalls == 1

\* jobs the scheduler reports in one listing
MaxJobs == 2

\* tasks of one batch
MaxTasks == 2

\* dispatches and re-dispatches of one simulation
MaxAttempts == 2

\* arguments of one command
MaxArgs == 2

MaxClock == 3

\* ---------------------------------------------------- SLURM configuration

None == "None"

\* no configuration object (the attribute is unset)
NoConfig == [none |-> TRUE]

\* no request built yet
NoRequest == [none |-> TRUE]

\* names of the configuration fields read by the SLURM calls
ConfigFields ==
    {"base_url", "api_version", "proxy_url", "user_name", "user_token",
     "partition", "constraints", "environment", "output_path", "script_setup"}

\* A configuration all of whose fields carry the mark v, so that a value read
\* from one configuration can never be mistaken for a value of another.
MkConfig(v, token) ==
    [base_url     |-> <<"base_url", v>>,
     api_version  |-> <<"api_version", v>>,
     proxy_url    |-> <<"proxy_url", v>>,
     user_name    |-> <<"user_name", v>>,
     user_token   |-> token,
     partition    |-> <<"partition", v>>,
     constraints  |-> <<"constraints", v>>,
     environment  |-> <<"environment", v>>,
     output_path  |-> <<"output_path", v>>,
     script_setup |-> <<"script_setup", v>>]

\* the configuration instance() builds from os.environ
EnvConfig == MkConfig("env", "token_env")

\* the configurations a caller may hand to configure
ConfigArgs == {MkConfig("a", "token_a"), MkConfig("b", "token_b")}

\* the tokens a caller may hand to update_user_token
TokenArgs == {"token_r1", "token_r2"}

VARIABLES
    envComplete,   \* every required SLURM_* variable is in os.environ
    instance,      \* cls._instance is not None
    objects,       \* how many SLURMActor objects have been created; the
                   \* last one is cls._instance
    clsConfig,     \* class attribute _config, set by instance(), or NoConfig
    selfConfig,    \* instance attribute _config, set by configure, or NoConfig
    loop,          \* the calls that hold the event loop: none or one
    calls,         \* the SLURM calls of the coroutines
    lastOp,        \* the last configuration operation, its argument and the
                   \* configuration it found
    lastConfigure, \* argument of the last configure, or NoConfig
    lastToken      \* argument of the last update_user_token since, or None

cfgVars == <<envComplete, instance, objects, clsConfig, selfConfig, loop, calls,
             lastOp, lastConfigure, lastToken>>

\* the scheduler's job database, the local data directory and the last
\* listing made from them
VARIABLES
    slurmJobs,      \* response["jobs"] of GET slurmdb/jobs, in the server's order
    generator_ids,  \* names of the directories under <data>/generator
    simulation_ids, \* names of the directories under <data>/simulation
    listing         \* the last listing call, its argument and what it returned

listVars == <<slurmJobs, generator_ids, simulation_ids, listing>>

\* a dispatch to SLURM
VARIABLES
    sub,   \* the dispatch call: where it stands, its tasks, the job it
           \* submits, how the request ended and what the caller gets
    posts  \* the requests the dispatch call has sent, in order

dispVars == <<sub, posts>>

\* a batch on the local actor
VARIABLES
    batch,  \* the call of _dispatch_tasks: where it stands, its tasks, the
            \* tasks started, completed and timed out, and what it gives back
    files   \* the files in the working directories

localVars == <<batch, files>>

\* one simulation and its directory
VARIABLES
    simFiles,  \* the files of the directory of the simulation
    attempt,   \* how many dispatches of the simulation have begun
    simCall,   \* the dispatch or re-dispatch under way
    simJobs    \* the attempts whose SLURM job is queued

simVars == <<simFiles, attempt, simCall, simJobs>>

\* the payload of one submission
VARIABLES
    request,  \* the configuration and the command _dispatch_command is given
    payload   \* the script and the job data it builds from them

payloadVars == <<request, payload>>

\* the field tables and the symlinks under the data path
VARIABLES
    fieldFiles,  \* the files in <data>/field, by their real path
    links,       \* the symlinks in the simulation directories
    fieldCall    \* the last call of delete_field_table and what it returned

fieldVars == <<fieldFiles, links, fieldCall>>
\* the renewal of the SLURM token in the example client
VARIABLES
    clock,                \* datetime.now(), in whole hours
    _last_token_renewal,  \* <<>> for None, or <<the time it was set>>
    hooks,                \* the hooks that are registered
    renew                 \* the last call of renew_slurm_token_if_needed: where
                          \* it stands, the hooks it has called, and the time
                          \* of the last renewal that succeeded

renewVars == <<clock, _last_token_renewal, hooks, renew>>
vars == <<cfgVars, listVars, dispVars, localVars, simVars, payloadVars, fieldVars, renewVars>>

notCfg == <<listVars, dispVars, localVars, simVars, payloadVars, fieldVars, renewVars>>

notList == <<cfgVars, dispVars, localVars, simVars, payloadVars, fieldVars, renewVars>>

notDisp == <<cfgVars, listVars, localVars, simVars, payloadVars, fieldVars, renewVars>>

notLocal == <<cfgVars, listVars, dispVars, simVars, payloadVars, fieldVars, renewVars>>

notSim == <<cfgVars, listVars, dispVars, localVars, payloadVars, fieldVars, renewVars>>

notPayload == <<cfgVars, listVars, dispVars, localVars, simVars, fieldVars, renewVars>>

notField == <<cfgVars, listVars, dispVars, localVars, simVars, payloadVars, renewVars>>

notRenew == <<cfgVars, listVars, dispVars, localVars, simVars, payloadVars, fieldVars>>

\* no field table, no symlink, no call
NoFieldCall == [op |-> None, file_name |-> None, force |-> FALSE,
                existed |-> FALSE, returned |-> {}]

FieldIdle ==
    /\ fieldFiles = {}
    /\ links = {}
    /\ fieldCall = NoFieldCall

\* no renewal has been asked for
NoRenewal == [pc |-> "idle", max_age_hours |-> 0, token |-> None,
              called |-> <<>>, renewed |-> <<>>]

RenewIdle ==
    /\ clock = 0
    /\ _last_token_renewal = <<>>
    /\ hooks = {}
    /\ renew = NoRenewal

\* no job, no result and no dispatch under way
NoJob == [none |-> TRUE]

NoResult == [kind |-> None]

NoCall == [op |-> None]

NoDispatch == [pc |-> "idle", backend |-> None, call |-> NoCall,
               batches |-> <<>>, tasks |-> <<>>, job |-> NoJob,
               outcome |-> None, result |-> NoResult]

DispIdle ==
    /\ sub = NoDispatch
    /\ posts = <<>>

\* no batch under way on the local actor
NoBatch == [pc |-> "idle", backend |-> None, tasks |-> <<>>, i |-> 0,
            started |-> <<>>, procs |-> <<>>, output |-> <<>>,
            completed |-> {}, timedOut |-> {}, result |-> NoResult]

LocalIdle ==
    /\ batch = NoBatch
    /\ files = {}

\* no payload is being built
NoPayload == [none |-> TRUE]

PayloadIdle ==
    /\ request = [none |-> TRUE]
    /\ payload = NoPayload

\* no simulation has been dispatched
NoSimCall == [op |-> None, pc |-> "idle", host |-> None, outcome |-> None,
              before |-> None]

SimIdle ==
    /\ simFiles = {}
    /\ attempt = 0
    /\ simCall = NoSimCall
    /\ simJobs = {}

CallIds == 1 .. MaxCalls

CallKinds == {"dispatch", "ping", "diagnose", "list_jobs"}

IdleCall == [pc |-> "idle", kind |-> None, start |-> NoConfig,
             body |-> NoRequest, req |-> NoRequest]

\* attribute lookup self._config: the instance attribute shadows the class
\* attribute
Configuration == IF selfConfig # NoConfig THEN selfConfig ELSE clsConfig

\* SLURMActor.configure
configure_keep_token(old, config) ==
    IF old = NoConfig THEN config ELSE [config EXCEPT !.user_token = old.user_token]

configure(old, config) == config

\* SLURMActor.update_user_token
update_user_token_all(cfg, t) ==
    [cfg EXCEPT !.user_token = t, !.user_name = <<"user_name", "env">>]

update_user_token(cfg, t) == [cfg EXCEPT !.user_token = t]

\* SLURMActor._header_credentials
_header_credentials(cfg) ==
    [name |-> cfg.user_name, token |-> cfg.user_token]

\* what the body of a call reads from the configuration before _request
CallBody(kind, cfg) ==
    CASE kind = "dispatch" ->
            [script_setup |-> cfg.script_setup,
             partition    |-> cfg.partition,
             constraints  |-> cfg.constraints,
             environment  |-> cfg.environment,
             output_path  |-> cfg.output_path]
      [] kind = "list_jobs" -> [users |-> cfg.user_name]
      [] OTHER -> NoRequest

\* SLURMActor._request: the arguments of slurm.request
_request(cfg) ==
    [url         |-> cfg.base_url,
     api_version |-> cfg.api_version,
     user_name   |-> cfg.user_name,
     user_token  |-> cfg.user_token,
     headers     |-> _header_credentials(cfg),
     proxy_url   |-> cfg.proxy_url]

\* Who holds the event loop once the body of a call has been evaluated: the
\* call itself, there is no await between the first read of the configuration
\* and slurm.request.
LoopAfterBody_yield(c) == {}

LoopAfterBody(c) == {c}

\* the process has started and SLURMActor.instance() has not been called
CfgStart ==
    /\ envComplete \in BOOLEAN
    /\ instance = FALSE
    /\ objects = 0
    /\ clsConfig = NoConfig
    /\ selfConfig = NoConfig
    /\ loop = {}
    /\ calls = [c \in CallIds |-> IdleCall]
    /\ lastOp = [op |-> None, token |-> None, before |-> NoConfig,
                 outcome |-> None]
    /\ lastConfigure = NoConfig
    /\ lastToken = None

\* no job at the scheduler, no local directory, nothing listed
NoListing == [op |-> None, state |-> {}, jobs |-> <<>>,
              particles |-> <<>>, simulations |-> <<>>]

ListIdle ==
    /\ slurmJobs = <<>>
    /\ generator_ids = {}
    /\ simulation_ids = {}
    /\ listing = NoListing

\* SLURMActor.instance() creates an object when cls._instance is None
new_instance_always(inst) == TRUE

new_instance(inst) == ~inst

\* SLURMActor.instance(); a new object has no configuration of its own, and
\* the class attribute is set from os.environ after the object is stored
Instance ==
    /\ loop = {}
    /\ instance' = TRUE
    /\ objects' = IF new_instance(instance) THEN objects + 1 ELSE objects
    /\ selfConfig' = IF new_instance(instance) THEN NoConfig ELSE selfConfig
    /\ clsConfig' = IF new_instance(instance) /\ envComplete
                    THEN EnvConfig ELSE clsConfig
    /\ lastOp' = [op |-> "instance", token |-> None, before |-> Configuration,
                  outcome |-> IF new_instance(instance) /\ ~envComplete
                              THEN "KeyError" ELSE "returned"]
    /\ UNCHANGED <<envComplete, loop, calls, lastConfigure, lastToken>>
    /\ UNCHANGED notCfg

\* SLURMActor.instance().configure(config)
Configure(config) ==
    /\ loop = {}
    /\ instance
    /\ selfConfig' = configure(Configuration, config)
    /\ lastOp' = [op |-> "configure", token |-> None, before |-> Configuration,
                  outcome |-> "returned"]
    /\ lastConfigure' = config
    /\ lastToken' = None
    /\ UNCHANGED <<envComplete, instance, objects, clsConfig, loop, calls>>
    /\ UNCHANGED notCfg

\* SLURMActor.instance().update_user_token(user_token); without a
\* configuration the attribute lookup raises and nothing changes
UpdateUserToken(t) ==
    /\ loop = {}
    /\ instance
    /\ Configuration # NoConfig
    /\ IF selfConfig # NoConfig
       THEN /\ selfConfig' = update_user_token(selfConfig, t)
            /\ UNCHANGED clsConfig
       ELSE /\ clsConfig' = update_user_token(clsConfig, t)
            /\ UNCHANGED selfConfig
    /\ lastOp' = [op |-> "update_user_token", token |-> t,
                  before |-> Configuration, outcome |-> "returned"]
    /\ lastToken' = t
    /\ UNCHANGED <<envComplete, instance, objects, loop, calls, lastConfigure>>
    /\ UNCHANGED notCfg

\* a coroutine enters _dispatch_command, ping, diagnose or list_jobs and
\* evaluates everything up to the call of _request
CallStart(c, kind) ==
    /\ loop = {}
    /\ instance
    /\ Configuration # NoConfig
    /\ calls[c].pc = "idle"
    /\ calls' = [calls EXCEPT ![c] =
                    [pc |-> "body", kind |-> kind, start |-> Configuration,
                     body |-> CallBody(kind, Configuration), req |-> NoRequest]]
    /\ loop' = LoopAfterBody(c)
    /\ UNCHANGED <<envComplete, instance, objects, clsConfig, selfConfig,
                   lastOp, lastConfigure, lastToken>>
    /\ UNCHANGED notCfg

\* _request evaluates the arguments of slurm.request and awaits it: the
\* request is in flight and the event loop is free
CallRequest(c) ==
    /\ loop \subseteq {c}
    /\ calls[c].pc = "body"
    /\ Configuration # NoConfig
    /\ calls' = [calls EXCEPT ![c].pc = "inflight",
                              ![c].req = _request(Configuration)]
    /\ loop' = {}
    /\ UNCHANGED <<envComplete, instance, objects, clsConfig, selfConfig,
                   lastOp, lastConfigure, lastToken>>
    /\ UNCHANGED notCfg

\* the response (or the failure) arrives and the call returns
CallReturn(c) ==
    /\ loop = {}
    /\ calls[c].pc = "inflight"
    /\ calls' = [calls EXCEPT ![c] = IdleCall]
    /\ UNCHANGED <<envComplete, instance, objects, clsConfig, selfConfig, loop,
                   lastOp, lastConfigure, lastToken>>
    /\ UNCHANGED notCfg

\* a process that never touches the SLURM back-end
CfgIdle == CfgStart /\ envComplete

InitCfg == CfgStart /\ ListIdle /\ DispIdle /\ LocalIdle /\ SimIdle /\ PayloadIdle /\ FieldIdle /\ RenewIdle

NextCfg ==
    \/ Instance
    \/ \E config \in ConfigArgs : Configure(config)
    \/ \E t \in TokenArgs : UpdateUserToken(t)
    \/ \E c \in CallIds, kind \in CallKinds : CallStart(c, kind)
    \/ \E c \in CallIds : CallRequest(c)
    \/ \E c \in CallIds : CallReturn(c)

SpecCfg == InitCfg /\ [][NextCfg]_vars

\* ---------------------------------------------------------- job listings

\* Strings that are taken apart are sequences of characters.
GENERATE_DISPATCH_NAME_PREFIX == <<"g", "e", "n", "e", "r", "a", "t", "e", "-">>

SIMULATE_DISPATCH_NAME_PREFIX == <<"s", "i", "m", "u", "l", "a", "t", "e", "-">>

COMPRESS_DISPATCH_NAME_PREFIX == <<"c", "o", "m", "p", "r", "e", "s", "s", "-">>

\* str.startswith
startswith(s, prefix) ==
    Len(s) >= Len(prefix) /\ SubSeq(s, 1, Len(prefix)) = prefix

\* str.removeprefix
removeprefix(s, prefix) ==
    IF startswith(s, prefix) THEN SubSeq(s, Len(prefix) + 1, Len(s)) ELSE s

Range(q) == {q[i] : i \in DOMAIN q}

\* [F(x) for x in q]
Map(q, F(_)) == [i \in DOMAIN q |-> F(q[i])]

\* str.lower on the state names the scheduler sends; SLURMJobState.select
\* gives the member of that value
lower(s) ==
    CASE s = "RUNNING" -> "running"
      [] s = "PENDING" -> "pending"
      [] s = "COMPLETED" -> "completed"
      [] OTHER -> s

\* the ids of the local records
IdA == <<"A">>

IdB == <<"B">>

\* the names of the jobs the scheduler may hold: of either prefix, of a prefix
\* after a prefix, and of neither
JobNames ==
    {GENERATE_DISPATCH_NAME_PREFIX \o IdA,
     SIMULATE_DISPATCH_NAME_PREFIX \o IdB,
     GENERATE_DISPATCH_NAME_PREFIX \o SIMULATE_DISPATCH_NAME_PREFIX \o IdB,
     COMPRESS_DISPATCH_NAME_PREFIX \o IdA}

\* job["state"]["current"] as the scheduler sends it
JobStateLists == {<<"RUNNING">>, <<"PENDING", "COMPLETED">>}

\* the members of SLURMJobState a caller asks for
RequestedStates == {"running", "pending"}

\* the job lists the scheduler may answer with; job ids are the scheduler's
\* and differ from job to job
JobLists ==
    UNION {
        {[i \in 1 .. n |->
             [job_id |-> i, name |-> q[i][1], current |-> q[i][2]]] :
         q \in [1 .. n -> JobNames \X JobStateLists]} :
        n \in 0 .. MaxJobs}

\* SLURMHostLocalizer.list_jobs: the jobs left by the manual state filter
HL_list_jobs(jobs, state) ==
    IF state # {}
    THEN SelectSeq(jobs,
             LAMBDA j : {lower(x) : x \in Range(j.current)} \cap state # {})
    ELSE jobs

\* SLURMHostLocalizer.list_job_ids: the filter for managed ids
ManagedIds_all(ids, local) == ids

ManagedIds(ids, local) == SelectSeq(ids, LAMBDA id : id \in local)

\* SLURMHostLocalizer.list_job_ids
HL_list_job_ids(jobs, state, gen_ids, sim_ids) ==
    LET job_ids == Map(HL_list_jobs(jobs, state), LAMBDA j : j.name)
        stripped(prefix) ==
            Map(SelectSeq(job_ids, LAMBDA j : startswith(j, prefix)),
                LAMBDA j : removeprefix(j, prefix))
    IN  [particles   |-> ManagedIds(stripped(GENERATE_DISPATCH_NAME_PREFIX), gen_ids),
         simulations |-> ManagedIds(stripped(SIMULATE_DISPATCH_NAME_PREFIX), sim_ids)]

\* SLURMActor.list_jobs.extract (partition and state reason are copied
\* through and left out here)
extract(job) ==
    [id    |-> removeprefix(
                   removeprefix(job.name, GENERATE_DISPATCH_NAME_PREFIX),
                   SIMULATE_DISPATCH_NAME_PREFIX),
     slurm |-> [id            |-> job.job_id,
                name          |-> job.name,
                state_current |-> Map(job.current, lower)]]

\* SLURMActor.list_jobs.filter
filter_none(jobs, prefix) == jobs

filter(jobs, prefix) == SelectSeq(jobs, LAMBDA job : startswith(job.name, prefix))

\* SLURMActor.list_jobs
list_jobs(jobs) ==
    [particles   |-> Map(filter(jobs, GENERATE_DISPATCH_NAME_PREFIX), extract),
     simulations |-> Map(filter(jobs, SIMULATE_DISPATCH_NAME_PREFIX), extract)]

\* SLURMActor.list_dispatched_ids_by_state; state is {} for None and {s} for
\* the member s
list_dispatched_ids_by_state(jobs, state) ==
    LET listed == list_jobs(jobs)
        filter_and_extract(js) ==
            Map(SelectSeq(js,
                    LAMBDA job :
                        /\ state # {}
                        /\ state \subseteq Range(job.slurm.state_current)),
                LAMBDA job : job.id)
    IN  [particles   |-> filter_and_extract(listed.particles),
         simulations |-> filter_and_extract(listed.simulations)]

\* the scheduler holds any of the job lists and the data directory any of the
\* records
ListStart ==
    /\ slurmJobs \in JobLists
    /\ generator_ids \in SUBSET {IdA}
    /\ simulation_ids \in SUBSET {IdB}
    /\ listing = NoListing

\* GET /slurm/jobs: SLURMHostLocalizer.list_jobs(state)
HL_ListJobs(state) ==
    /\ listing' = [NoListing EXCEPT !.op = "HL_list_jobs", !.state = state,
                                    !.jobs = HL_list_jobs(slurmJobs, state)]
    /\ UNCHANGED <<slurmJobs, generator_ids, simulation_ids>>
    /\ UNCHANGED notList

\* GET /slurm/jobs/ids: SLURMHostLocalizer.list_job_ids(state, local)
HL_ListJobIds(state) ==
    /\ LET out == HL_list_job_ids(slurmJobs, state, generator_ids, simulation_ids)
       IN  listing' = [NoListing EXCEPT !.op = "HL_list_job_ids", !.state = state,
                                        !.particles = out.particles,
                                        !.simulations = out.simulations]
    /\ UNCHANGED <<slurmJobs, generator_ids, simulation_ids>>
    /\ UNCHANGED notList

\* SLURMActor.list_jobs(timeout)
ListJobs ==
    /\ LET out == list_jobs(slurmJobs)
       IN  listing' = [NoListing EXCEPT !.op = "list_jobs",
                                        !.particles = out.particles,
                                        !.simulations = out.simulations]
    /\ UNCHANGED <<slurmJobs, generator_ids, simulation_ids>>
    /\ UNCHANGED notList

\* SLURMActor.list_dispatched_ids_by_state(state, timeout)
ListDispatchedIdsByState(state) ==
    /\ LET out == list_dispatched_ids_by_state(slurmJobs, state)
       IN  listing' = [NoListing EXCEPT !.op = "list_dispatched_ids_by_state",
                                        !.state = state,
                                        !.particles = out.particles,
                                        !.simulations = out.simulations]
    /\ UNCHANGED <<slurmJobs, generator_ids, simulation_ids>>
    /\ UNCHANGED notList

InitList == ListStart /\ CfgIdle /\ DispIdle /\ LocalIdle /\ SimIdle /\ PayloadIdle /\ FieldIdle /\ RenewIdle

NextList ==
    \/ \E state \in SUBSET RequestedStates : HL_ListJobs(state)
    \/ \E state \in SUBSET RequestedStates : HL_ListJobIds(state)
    \/ ListJobs
    \/ \E state \in {{}} \cup {{x} : x \in RequestedStates} :
           ListDispatchedIdsByState(state)

SpecList == InitList /\ [][NextList]_vars

\* ------------------------------------------------------- SLURM dispatch

\* An optional integer is a sequence: <<>> for None and <<n>> for n.
IsSet(x) == x # <<>>

\* Task
Task(name, command, cwd, output_file_name_base, timeout, threads) ==
    [name |-> name, command |-> command, cwd |-> cwd,
     output_file_name_base |-> output_file_name_base,
     timeout |-> timeout, threads |-> threads]

\* Actor.simulation_path, Actor.generator_path
simulation_path(id) == <<"data", "simulation", id>>

generator_path(id) == <<"data", "generator", id>>

\* Actor._generator_command
_generator_command == <<"generator", "generator.in">>

\* Actor._simulation_command with Actor._astra_simulation_binary_path
_simulation_command(thread_num) ==
    IF thread_num > 1
    THEN <<"mpirun", "-n", thread_num, "parallel_astra", "run.in">>
    ELSE <<"astra", "run.in">>

\* Actor._compression_command
_compression_command(sim_id) ==
    <<"astra-web-cli", "compress-sim", <<"--sim-id=", sim_id>>,
      "--precision=", "--max-rel-err=">>

\* Actor.dispatch_generation: the batch handed to _dispatch_tasks
GenerationTasks(input) ==
    <<Task(GENERATE_DISPATCH_NAME_PREFIX \o input.id, _generator_command,
           generator_path(input.id), "generator", input.timeout, <<>>)>>

\* Actor.dispatch_simulation: the batch handed to _dispatch_tasks
SimulationTasks_compress_first(input) ==
    <<Task(COMPRESS_DISPATCH_NAME_PREFIX \o input.id,
           _compression_command(input.id),
           simulation_path(input.id), "compress", <<>>, <<>>),
      Task(SIMULATE_DISPATCH_NAME_PREFIX \o input.id,
           _simulation_command(input.thread_num),
           simulation_path(input.id), "run",
           <<input.timeout>>, <<input.thread_num>>)>>

SimulationTasks(input) ==
    <<Task(SIMULATE_DISPATCH_NAME_PREFIX \o input.id,
           _simulation_command(input.thread_num),
           simulation_path(input.id), "run",
           <<input.timeout>>, <<input.thread_num>>)>>
    \o IF input.auto_compress_after_run
       THEN <<Task(COMPRESS_DISPATCH_NAME_PREFIX \o input.id,
                   _compression_command(input.id),
                   simulation_path(input.id), "compress", <<>>, <<>>)>>
       ELSE <<>>

\* timeouts in seconds and thread numbers of the inputs
TimeoutArgs == {30, 90}

ThreadArgs == {1, 4}

GeneratorInputs == [id : {IdA, IdB}, timeout : {<<>>, <<90>>}]

SimulationInputs ==
    [id : {IdA}, timeout : TimeoutArgs, thread_num : ThreadArgs,
     auto_compress_after_run : BOOLEAN]

\* the tasks a batch is made of: the generation tasks, and the two tasks of
\* a parallel simulation of 30 seconds that is compressed afterwards
TaskArgs ==
    UNION {{GenerationTasks(i)[1] : i \in GeneratorInputs},
           {SimulationTasks(i)[k] : k \in 1 .. 2,
               i \in {j \in SimulationInputs :
                         /\ j.auto_compress_after_run
                         /\ j.thread_num > 1
                         /\ j.timeout < 60}}}

\* the batches _dispatch_tasks may be given, the empty one included
Batches == UNION {[1 .. n -> TaskArgs] : n \in 0 .. MaxTasks}

RECURSIVE SumTimeouts(_)
\* sum of the timeouts that are set
SumTimeouts(tasks) ==
    IF tasks = <<>> THEN 0
    ELSE (IF IsSet(tasks[1].timeout) THEN tasks[1].timeout[1] ELSE 0)
         + SumTimeouts(Tail(tasks))

\* the aggregate time limit of a batch: the sum of the timeouts that are set,
\* None when none is
AggregateTimeout(tasks) ==
    IF \E i \in DOMAIN tasks : IsSet(tasks[i].timeout)
    THEN <<SumTimeouts(tasks)>>
    ELSE <<>>

\* the aggregate threads per node: the largest thread count that is set, None
\* when none is
AggregateThreads(tasks) ==
    LET set == {tasks[i].threads[1] : i \in {j \in DOMAIN tasks : IsSet(tasks[j].threads)}}
    IN  IF set = {} THEN <<>> ELSE <<CHOOSE m \in set : \A n \in set : n <= m>>

\* SLURMActor._dispatch_command: data["job"]["time_limit"]
time_limit(timeout) ==
    [set    |-> IsSet(timeout),
     number |-> IF IsSet(timeout) THEN timeout[1] \div 60 ELSE 0]

\* SLURMHostLocalizer._dispatch_command: data["job"]["time_limit"]
HL_time_limit(timeout) ==
    [set    |-> IsSet(timeout),
     number |-> IF IsSet(timeout) /\ timeout[1] # 0 THEN timeout[1] ELSE 0]

\* SLURMActor._dispatch_command: data["job"], without the values read from
\* the configuration (CallBody)
SLURMJob(name, timeout, threads) ==
    [name           |-> name,
     time_limit     |-> time_limit(timeout),
     tasks_per_node |-> threads]

\* SLURMHostLocalizer._dispatch_command: data["job"], likewise
HL_SLURMJob(name, timeout) ==
    [name           |-> name,
     time_limit     |-> HL_time_limit(timeout),
     tasks_per_node |-> <<>>]

\* the one call of slurm.request (requests.post) a _request makes
send_twice(log, method, endpoint) ==
    log \o <<[method |-> method, endpoint |-> endpoint],
             [method |-> method, endpoint |-> endpoint]>>

send(log, method, endpoint) ==
    Append(log, [method |-> method, endpoint |-> endpoint])

\* how a request may end for SLURMHostLocalizer._request: a reply of status
\* 2xx, a reply of another status, no reply (connection refused or lost)
HL_Outcomes == {"ok", "http_error", "connection_error"}

\* how slurm.request may end as far as SLURMActor provides for it: a reply,
\* or the RuntimeError it catches
Outcomes == {"ok", "RuntimeError"}

\* SLURMHostLocalizer._request: what leaves it.  raise_for_status raises
\* HTTPError, which is wrapped; requests' ConnectionError is none and passes.
HL_request(outcome) ==
    CASE outcome = "ok" -> [kind |-> "json"]
      [] outcome = "http_error" ->
            [kind |-> "RuntimeError", message |-> "Failed to send request"]
      [] OTHER -> [kind |-> "ConnectionError"]

\* _dispatch_command, from the try on: what the caller of dispatch gets
dispatched(raised, tasks, job) ==
    CASE raised.kind = "json" ->
            [kind |-> "DispatchResponse", dispatch_type |-> "slurm",
             slurm_submission |-> job, slurm_response |-> "json"]
      [] raised.kind = "RuntimeError" ->
            [kind |-> "RuntimeError", message |-> "Failed to dispatch command",
             command |-> Map(tasks, LAMBDA t : t.command),
             cwd |-> Map(tasks, LAMBDA t : t.cwd)]
      [] OTHER -> raised

NeutralResponse_with_payload ==
    [kind |-> "DispatchResponse", dispatch_type |-> "slurm",
     slurm_submission |-> SLURMJob(<<>>, <<>>, <<>>), slurm_response |-> "json"]

\* the response of a dispatch that had nothing to submit
NeutralResponse ==
    [kind |-> "DispatchResponse", dispatch_type |-> "slurm",
     slurm_submission |-> NoJob, slurm_response |-> "None"]

\* the id part of a batch name when the tasks share no id
Uuids == {<<"u", "1">>, <<"u", "2">>}

\* the name before the first "-" and the rest after it; the whole name and
\* the empty id when there is no "-"
SplitName(name) ==
    LET dashes == {i \in DOMAIN name : name[i] = "-"}
    IN  IF dashes = {}
        THEN [prefix |-> name, id |-> <<>>]
        ELSE LET d == CHOOSE i \in dashes : \A j \in dashes : i <= j
             IN  [prefix |-> SubSeq(name, 1, d - 1),
                  id     |-> SubSeq(name, d + 1, Len(name))]

\* the prefixes of the names, joined by commas
JoinPrefixes_first(names) == SplitName(names[1]).prefix

RECURSIVE JoinPrefixes(_)
JoinPrefixes(names) ==
    IF Len(names) = 1 THEN SplitName(names[1]).prefix
    ELSE SplitName(names[1]).prefix \o <<",">> \o JoinPrefixes(Tail(names))

\* the name of the job of a batch
resolveBatchName(tasks, uuid) ==
    LET names == Map(tasks, LAMBDA t : t.name)
    IN  IF \A i, j \in DOMAIN names : SplitName(names[i]).id = SplitName(names[j]).id
        THEN JoinPrefixes(names) \o <<"-">> \o SplitName(names[1]).id
        ELSE <<"c", "u", "m", "u", "l", "a", "t", "i", "v", "e", "-",
               "t", "a", "s", "k", "s", "-">> \o uuid

\* SLURMActor._dispatch_tasks: nothing is submitted for the empty batch; any
\* other batch becomes one job, submitted by one POST to job/submit
_dispatch_tasks(call, tasks, uuid) ==
    IF tasks = <<>>
    THEN /\ sub' = [NoDispatch EXCEPT !.pc = "returned", !.backend = "actor",
                                      !.call = call, !.batches = <<tasks>>,
                                      !.result = NeutralResponse]
         /\ posts' = <<>>
    ELSE /\ sub' = [NoDispatch EXCEPT
                       !.pc = "posted", !.backend = "actor", !.tasks = tasks,
                       !.call = call, !.batches = <<tasks>>,
                       !.job = SLURMJob(resolveBatchName(tasks, uuid),
                                        AggregateTimeout(tasks),
                                        AggregateThreads(tasks))]
         /\ posts' = send(<<>>, "POST", "job/submit")

\* Actor.dispatch_generation on the SLURM actor
DispatchGeneration(input) ==
    /\ sub.pc \in {"idle", "returned"}
    /\ \E uuid \in Uuids :
          _dispatch_tasks([op |-> "dispatch_generation", input |-> input],
                          GenerationTasks(input), uuid)
    /\ UNCHANGED notDisp

\* Actor.dispatch_simulation on the SLURM actor
DispatchSimulation(input) ==
    /\ sub.pc \in {"idle", "returned"}
    /\ \E uuid \in Uuids :
          _dispatch_tasks([op |-> "dispatch_simulation", input |-> input],
                          SimulationTasks(input), uuid)
    /\ UNCHANGED notDisp

\* SLURMActor._dispatch_tasks called with a batch of its own
DispatchTasks(tasks) ==
    /\ sub.pc \in {"idle", "returned"}
    /\ \E uuid \in Uuids :
          _dispatch_tasks([op |-> "_dispatch_tasks"], tasks, uuid)
    /\ UNCHANGED notDisp

\* slurm.request ends and SLURMActor._dispatch_command returns or raises
Response(outcome) ==
    /\ sub.pc = "posted"
    /\ sub.backend = "actor"
    /\ sub' = [sub EXCEPT
                  !.pc = "returned", !.outcome = outcome,
                  !.result = dispatched(
                      IF outcome = "ok"
                      THEN [kind |-> "json"]
                      ELSE [kind |-> "RuntimeError", message |-> "slurm.request"],
                      sub.tasks, sub.job)]
    /\ UNCHANGED posts
    /\ UNCHANGED notDisp

\* SLURMHostLocalizer._dispatch_command up to the request: one command, one
\* job, one POST to job/submit
HL_dispatch_command(name, command, cwd, output_file_name_base, timeout) ==
    /\ sub' = [NoDispatch EXCEPT
                  !.pc = "posted", !.backend = "hl",
                  !.tasks = <<Task(name, command, cwd, output_file_name_base,
                                   timeout, <<>>)>>,
                  !.job = HL_SLURMJob(name, timeout)]
    /\ posts' = send(<<>>, "POST", "job/submit")

\* HostLocalizer.dispatch_generation(generator_input, timeout) on the SLURM
\* localizer
HL_DispatchGeneration(id, timeout) ==
    /\ sub.pc \in {"idle", "returned"}
    /\ HL_dispatch_command(GENERATE_DISPATCH_NAME_PREFIX \o id,
                           _generator_command, generator_path(id),
                           "generator", <<timeout>>)
    /\ UNCHANGED notDisp

\* HostLocalizer.dispatch_simulation(simulation_input) on the SLURM localizer
HL_DispatchSimulation(input) ==
    /\ sub.pc \in {"idle", "returned"}
    /\ HL_dispatch_command(SIMULATE_DISPATCH_NAME_PREFIX \o input.id,
                           _simulation_command(input.thread_num),
                           simulation_path(input.id), "run", <<input.timeout>>)
    /\ UNCHANGED notDisp

\* requests.post ends and SLURMHostLocalizer._dispatch_command returns or
\* raises
HL_Response(outcome) ==
    /\ sub.pc = "posted"
    /\ sub.backend = "hl"
    /\ sub' = [sub EXCEPT
                  !.pc = "returned", !.outcome = outcome,
                  !.result = dispatched(HL_request(outcome), sub.tasks, sub.job)]
    /\ UNCHANGED posts
    /\ UNCHANGED notDisp

InitDisp == DispIdle /\ CfgIdle /\ ListIdle /\ LocalIdle /\ SimIdle /\ PayloadIdle /\ FieldIdle /\ RenewIdle

NextDisp ==
    \/ \E input \in GeneratorInputs : DispatchGeneration(input)
    \/ \E input \in SimulationInputs : DispatchSimulation(input)
    \/ \E tasks \in Batches : DispatchTasks(tasks)
    \/ \E outcome \in Outcomes : Response(outcome)
    \/ \E timeout \in TimeoutArgs : HL_DispatchGeneration(IdA, timeout)
    \/ \E input \in SimulationInputs : HL_DispatchSimulation(input)
    \/ \E outcome \in HL_Outcomes : HL_Response(outcome)

SpecDisp == InitDisp /\ [][NextDisp]_vars

\* ---------------------------------------------------------- local batch

\* subprocess.run as LocalActor._dispatch_command calls it: the process ends
\* in time, whatever its return code (no check=True), or run raises
\* TimeoutExpired
run_ignoring_timeout(timedOut) == "CompletedProcess"

run(timedOut) == IF timedOut THEN "TimeoutExpired" ELSE "CompletedProcess"

\* subprocess.run with a timeout: what has become of the child process when
\* run is left; a child still running at the timeout is killed and waited for
\* before TimeoutExpired is raised
reaped_unless_timeout(timedOut) == IF timedOut THEN "running" ELSE "exited"

reaped(timedOut) == IF timedOut THEN "killed" ELSE "exited"

\* a file of a working directory and what it holds: "empty" or "data"
File(cwd, base, ext, content) ==
    [cwd |-> cwd, name |-> base, ext |-> ext, content |-> content]

\* the files other than the one at a path
Others(fs, cwd, base, ext) ==
    {f \in fs : ~(f.cwd = cwd /\ f.name = base /\ f.ext = ext)}

\* open(path, "w"): the file exists and is empty, whether it existed or not
open_w(fs, cwd, base, ext) ==
    Others(fs, cwd, base, ext) \cup {File(cwd, base, ext, "empty")}

\* the child writes to a file that is open: nothing, or some data
written(fs, cwd, base, ext, nonempty) ==
    IF nonempty
    THEN Others(fs, cwd, base, ext) \cup {File(cwd, base, ext, "data")}
    ELSE fs

\* LocalActor._dispatch_command up to the call of run: the working directory
\* and both output files exist from here on
opened(fs, task) ==
    open_w(open_w(fs, task.cwd, task.output_file_name_base, ".out"),
           task.cwd, task.output_file_name_base, ".err")

\* the files when the run of a task of LocalActor is over: what the child
\* wrote to stdout and stderr is in the two files
captured(fs, task, out, err) ==
    written(written(fs, task.cwd, task.output_file_name_base, ".out", out),
            task.cwd, task.output_file_name_base, ".err", err)

\* write_to_file of the host localizer: the file is written only for
\* non-empty content
write_to_file(fs, nonempty, cwd, base, ext) ==
    written(fs, cwd, base, ext, nonempty)

\* the tasks of a local batch: a simulation with a timeout and its
\* compression without one, both in the directory of the simulation
LocalTaskArgs ==
    {SimulationTasks(i)[k] : k \in 1 .. 2,
        i \in {j \in SimulationInputs :
                 /\ j.auto_compress_after_run
                 /\ j.thread_num > 1
                 /\ j.timeout < 60}}

LocalBatches == UNION {[1 .. n -> LocalTaskArgs] : n \in 0 .. MaxTasks}

\* what a command writes to stdout and to stderr: something or nothing
OutputArgs == BOOLEAN \X BOOLEAN

\* the response of the local actor
LocalResponse == [kind |-> "DispatchResponse", dispatch_type |-> "local"]

\* LocalActor._dispatch_tasks takes up task i of the batch; fs are the files
\* at that moment
StartTask(b, i, fs) ==
    /\ batch' = [b EXCEPT !.pc = "running", !.i = i,
                          !.started = Append(b.started, i),
                          !.procs = Append(b.procs, "running")]
    /\ files' = opened(fs, b.tasks[i])

\* LocalActor._dispatch_tasks after the run of task batch.i ended as outcome:
\* the next task is taken up after a completed one, the batch ends after the
\* last one, and an exception ends the batch where it stands
AfterRun(b, outcome, fs) ==
    IF outcome = "CompletedProcess"
    THEN IF b.i < Len(b.tasks)
         THEN StartTask([b EXCEPT !.completed = @ \cup {b.i}], b.i + 1, fs)
         ELSE /\ batch' = [b EXCEPT !.pc = "returned",
                                    !.completed = @ \cup {b.i},
                                    !.result = LocalResponse]
              /\ files' = fs
    ELSE /\ batch' = [b EXCEPT !.pc = "raised", !.result = [kind |-> outcome]]
         /\ files' = fs

\* LocalActor._dispatch_tasks is called: the empty batch returns at once, any
\* other batch starts with its first task
LocalDispatchTasks(tasks) ==
    /\ batch.pc \in {"idle", "returned", "raised"}
    /\ IF tasks = <<>>
       THEN /\ batch' = [NoBatch EXCEPT !.pc = "returned", !.backend = "actor",
                                        !.result = LocalResponse]
            /\ UNCHANGED files
       ELSE StartTask([NoBatch EXCEPT !.backend = "actor", !.tasks = tasks],
                      1, files)
    /\ UNCHANGED notLocal

\* the process of the running task ends before its timeout, having written
\* out to stdout and err to stderr
LocalExit(out, err) ==
    /\ batch.pc = "running"
    /\ batch.backend = "actor"
    /\ AfterRun([batch EXCEPT !.procs[Len(batch.procs)] = reaped(FALSE),
                              !.output = <<out, err>>],
                run(FALSE),
                captured(files, batch.tasks[batch.i], out, err))
    /\ UNCHANGED notLocal

\* the process of the running task is still running when its timeout is over
LocalTimeout(out, err) ==
    /\ batch.pc = "running"
    /\ batch.backend = "actor"
    /\ IsSet(batch.tasks[batch.i].timeout)
    /\ AfterRun([batch EXCEPT !.timedOut = @ \cup {batch.i},
                              !.procs[Len(batch.procs)] = reaped(TRUE),
                              !.output = <<out, err>>],
                run(TRUE),
                captured(files, batch.tasks[batch.i], out, err))
    /\ UNCHANGED notLocal

\* LocalHostLocalizer.dispatch_simulation up to the call of run: the output
\* of the child goes to pipes, no file is touched
HL_LocalDispatchSimulation(input) ==
    /\ batch.pc \in {"idle", "returned", "raised"}
    /\ batch' = [NoBatch EXCEPT
                    !.pc = "running", !.backend = "hl",
                    !.tasks = <<Task(<<>>, _simulation_command(input.thread_num),
                                     simulation_path(input.id), "run",
                                     <<input.timeout>>, <<>>)>>,
                    !.i = 1, !.started = <<1>>, !.procs = <<"running">>]
    /\ UNCHANGED files
    /\ UNCHANGED notLocal

\* LocalHostLocalizer._dispatch_command after run returned: the captured
\* output goes to the files and the call returns None
HL_LocalExit(out, err) ==
    /\ batch.pc = "running"
    /\ batch.backend = "hl"
    /\ batch' = [batch EXCEPT !.pc = "returned", !.completed = {1},
                              !.procs[1] = reaped(FALSE),
                              !.output = <<out, err>>,
                              !.result = [kind |-> None]]
    /\ files' = LET t == batch.tasks[1]
                IN  write_to_file(
                        write_to_file(files, out, t.cwd,
                                      t.output_file_name_base, ".out"),
                        err, t.cwd, t.output_file_name_base, ".err")
    /\ UNCHANGED notLocal

\* LocalHostLocalizer._dispatch_command when run raises TimeoutExpired: the
\* captured output is dropped with the exception
HL_LocalTimeout ==
    /\ batch.pc = "running"
    /\ batch.backend = "hl"
    /\ batch' = [batch EXCEPT !.pc = "raised", !.timedOut = {1},
                              !.procs[1] = reaped(TRUE),
                              !.result = [kind |-> run(TRUE)]]
    /\ UNCHANGED files
    /\ UNCHANGED notLocal

InitLocal == LocalIdle /\ CfgIdle /\ ListIdle /\ DispIdle /\ SimIdle /\ PayloadIdle /\ FieldIdle /\ RenewIdle

NextLocal ==
    \/ \E tasks \in LocalBatches : LocalDispatchTasks(tasks)
    \/ \E o \in OutputArgs : LocalExit(o[1], o[2])
    \/ \E o \in OutputArgs : LocalTimeout(o[1], o[2])
    \/ \E input \in SimulationInputs : HL_LocalDispatchSimulation(input)
    \/ \E o \in OutputArgs : HL_LocalExit(o[1], o[2])
    \/ HL_LocalTimeout

SpecLocal == InitLocal /\ [][NextLocal]_vars

\* --------------------------------------------- batches on both back-ends

\* the empty batch and the batches of one task
SmallBatches == {<<>>} \cup {<<t>> : t \in LocalTaskArgs}

InitBatch == DispIdle /\ LocalIdle /\ CfgIdle /\ ListIdle /\ SimIdle /\ PayloadIdle /\ FieldIdle /\ RenewIdle

\* _dispatch_tasks of the SLURM actor and of the local actor, called in any
\* order by one client
NextBatch ==
    \/ \E tasks \in SmallBatches : DispatchTasks(tasks)
    \/ \E outcome \in Outcomes : Response(outcome)
    \/ \E tasks \in SmallBatches : LocalDispatchTasks(tasks)
    \/ \E o \in OutputArgs : LocalExit(o[1], o[2])
    \/ \E o \in OutputArgs : LocalTimeout(o[1], o[2])

SpecBatch == InitBatch /\ [][NextBatch]_vars

\* ------------------------------------------- one simulation's directory

\* A file of the directory: its name, what its text contains, and how many
\* dispatches had begun when it was written.
SimFile(name, content, epoch) ==
    [name |-> name, content |-> content, epoch |-> epoch]

Named(fs, name) == {f \in fs : f.name = name}

\* writing a file replaces the file of that name
put(fs, name, content, epoch) ==
    (fs \ Named(fs, name)) \cup {SimFile(name, content, epoch)}

\* what a run can leave in run.out and in run.err
OutTexts == {{}, {"finished simulation"}, {"Error", "finished simulation"},
             {"ATTENTION", "finished simulation"}}

ErrTexts == {{}, {"stderr"}}

\* DispatchStatus; get_simulation_status names a member UNFINISHED that
\* status.py does not define, so that return raises AttributeError
FAILED == "failed"

FINISHED == "finished"

UNFINISHED == "AttributeError"

\* get_simulation_status
get_simulation_status(fs) ==
    IF \E f \in Named(fs, "run.err") : f.content # {} THEN FAILED
    ELSE IF Named(fs, "run.out") = {} THEN UNFINISHED
    ELSE LET run_out == (CHOOSE f \in Named(fs, "run.out") : TRUE).content
         IN  IF "Error" \in run_out THEN FAILED
             ELSE IF "ATTENTION" \in run_out THEN FAILED
             ELSE IF "finished simulation" \in run_out THEN FINISHED
             ELSE UNFINISHED

\* os.makedirs(run_path, exist_ok=True); the directory is the entry "."
makedirs(fs, epoch) ==
    IF Named(fs, ".") # {} THEN fs ELSE fs \cup {SimFile(".", {}, epoch)}

\* get_simulation_status of simulation/host_localized.py
PENDING == "pending"

HL_get_simulation_status(fs) ==
    IF Named(fs, "run.err") # {} THEN FAILED
    ELSE IF \E f \in Named(fs, "run.out") : "finished simulation" \in f.content
    THEN FINISHED
    ELSE PENDING

\* write_simulation_files: the directory, input.json, run.in and the link to
\* the initial particle distribution; when the first write fails, only the
\* directory is there
write_simulation_files(fs, epoch, stored) ==
    IF stored
    THEN put(put(put(makedirs(fs, epoch), "input.json", {"input"}, epoch),
                 "run.in", {"ini"}, epoch),
             "distribution", {"link"}, epoch)
    ELSE makedirs(fs, epoch)

\* delete_simulation: rmtree of the directory
delete_simulation(fs) == {}

\* load_simulation_input: None without input.json
load_simulation_input_any(fs) == TRUE

load_simulation_input(fs) == Named(fs, "input.json") # {}

\* _reset_simulation after its check of the input: everything is deleted and
\* the initial files are written again
_reset_simulation_keeping(fs, epoch, stored) ==
    write_simulation_files(fs, epoch, stored)

_reset_simulation(fs, epoch, stored) ==
    write_simulation_files(delete_simulation(fs), epoch, stored)

\* the keys of the particle files a run can write, in the order of sorted()
Keys == <<"0100", "0200">>

KeySets == {{}, {"0100"}, {"0100", "0200"}}

Precisions == {"f32", "f64"}

\* run.<key>.001, the raw particle file of a key
RawNames == [k \in {Keys[i] : i \in DOMAIN Keys} |-> "run." \o k \o ".001"]

RawName(k) == RawNames[k]

\* run.<first>-<last>.001.<precision>.compressed.npz
CompressedName(first, last, precision) ==
    "run." \o first \o "-" \o last \o ".001." \o precision \o ".compressed.npz"

\* _particle_paths: the keys of the files matching run.*[0-9].001, sorted
_particle_paths(fs) ==
    SelectSeq(Keys, LAMBDA k : Named(fs, RawName(k)) # {})

\* the files matching run.*[0-9]-*[0-9].001.f*.compressed.npz
CompressedNames ==
    {CompressedName(a, b, p) :
        a \in Range(Keys), b \in Range(Keys), p \in Precisions}

_compressed_particle_path(fs) == {f \in fs : f.name \in CompressedNames}

\* raw particle files are written for the keys, by ASTRA or by np.savetxt
particles(fs, keys, writer, epoch) ==
    (fs \ {f \in fs : \E k \in keys : f.name = RawName(k)})
        \cup {SimFile(RawName(k), {writer}, epoch) : k \in keys}

\* compress_simulation once the data is loaded: the arrays are saved under
\* their keys in one file, then the raw files are removed one by one, here
\* the first n of them
compressed_unsaved(fs, precision, n, epoch) ==
    LET paths == _particle_paths(fs)
    IN  fs \ {f \in fs : \E i \in 1 .. n : f.name = RawName(paths[i])}

compressed(fs, precision, n, epoch) ==
    LET paths == _particle_paths(fs)
        archive == SimFile(CompressedName(paths[1], paths[Len(paths)], precision),
                           Range(paths), epoch)
    IN  (fs \ {f \in fs : \E i \in 1 .. n : f.name = RawName(paths[i])})
            \cup {archive}

\* uncompress_simulation's loop: the first n arrays of the archive are written
\* to their raw files
savetxt(fs, archive, n, epoch) ==
    LET keys == SelectSeq(Keys, LAMBDA k : k \in archive.content)
    IN  particles(fs, {keys[i] : i \in 1 .. n}, "savetxt", epoch)

\* uncompress_simulation once the archive is found: every array is written to
\* its raw file and the archive is removed
uncompressed_keeping(fs, archive, epoch) ==
    savetxt(fs, archive, Cardinality(archive.content), epoch)

uncompressed(fs, archive, epoch) ==
    savetxt(fs, archive, Cardinality(archive.content), epoch) \ {archive}

\* the hosts a simulation is dispatched to
Hosts == {"local", "slurm"}

\* actor.dispatch_simulation begins: the SLURM actor awaits the reply to its
\* request; the local actor opens run.out and run.err and runs the command.
\* The call remembers the status the simulation had when it was made.
BeginDispatch(op, host, fs, epoch, stored) ==
    /\ simCall' = [op |-> op, pc |-> IF stored THEN "dispatching" ELSE "raised",
                   host |-> host,
                   outcome |-> IF stored THEN None ELSE "OSError",
                   before |-> get_simulation_status(simFiles)]
    /\ simFiles' = IF stored /\ host = "local"
                   THEN put(put(fs, "run.out", {}, epoch), "run.err", {}, epoch)
                   ELSE fs

\* dispatch_simulation_run for a new simulation: its id is new, so there is
\* no directory yet
DispatchSimulationRun(host, stored) ==
    /\ simCall.pc # "dispatching"
    /\ attempt < MaxAttempts
    /\ simFiles = {}
    /\ attempt' = attempt + 1
    /\ BeginDispatch("dispatch", host,
                     write_simulation_files(simFiles, attempt + 1, stored),
                     attempt + 1, stored)
    /\ UNCHANGED simJobs
    /\ UNCHANGED notSim

\* redispatch_simulation_run: without input.json it raises and nothing is
\* touched, otherwise the directory is reset and the run is dispatched
RedispatchSimulationRun(host, stored) ==
    /\ simCall.pc # "dispatching"
    /\ IF load_simulation_input(simFiles)
       THEN /\ attempt < MaxAttempts
            /\ attempt' = attempt + 1
            /\ BeginDispatch("redispatch", host,
                             _reset_simulation(simFiles, attempt + 1, stored),
                             attempt + 1, stored)
       ELSE /\ simCall' = [op |-> "redispatch", pc |-> "raised", host |-> host,
                           outcome |-> "FileNotFoundError",
                           before |-> get_simulation_status(simFiles)]
            /\ UNCHANGED <<simFiles, attempt>>
    /\ UNCHANGED simJobs
    /\ UNCHANGED notSim

\* the request to SLURM ends: the job is queued, or the dispatch raises
SimSubmitted(outcome) ==
    /\ simCall.pc = "dispatching"
    /\ simCall.host = "slurm"
    /\ simCall' = [simCall EXCEPT
                      !.pc = IF outcome = "ok" THEN "returned" ELSE "raised",
                      !.outcome = outcome]
    /\ simJobs' = IF outcome = "ok" THEN simJobs \cup {attempt} ELSE simJobs
    /\ UNCHANGED <<simFiles, attempt>>
    /\ UNCHANGED notSim

\* the local run ends in time or at its timeout; what it wrote is in run.out
\* and run.err
SimLocalRunEnds(out, err, keys, timedOut) ==
    /\ simCall.pc = "dispatching"
    /\ simCall.host = "local"
    /\ simFiles' = particles(put(put(simFiles, "run.out", out, attempt),
                                 "run.err", err, attempt), keys, "astra", attempt)
    /\ simCall' = [simCall EXCEPT
                      !.pc = IF timedOut THEN "raised" ELSE "returned",
                      !.outcome = run(timedOut)]
    /\ UNCHANGED <<attempt, simJobs>>
    /\ UNCHANGED notSim

\* the job script: the command writes run.out and run.err in the directory
\* of the simulation, and the empty ones are removed if the command succeeded
job_script(fs, out, err, keys, succeeded, epoch) ==
    LET ran == particles(put(put(fs, "run.out", out, epoch),
                             "run.err", err, epoch), keys, "astra", epoch)
    IN  IF succeeded
        THEN {f \in ran : ~(f.name \in {"run.out", "run.err"} /\ f.content = {})}
        ELSE ran

\* a queued SLURM job runs; without the directory its cd fails
SimJobRuns(j, out, err, keys, succeeded) ==
    /\ j \in simJobs
    /\ simJobs' = simJobs \ {j}
    /\ simFiles' = IF simFiles = {} THEN simFiles
                   ELSE job_script(simFiles, out, err, keys, succeeded, attempt)
    /\ UNCHANGED <<attempt, simCall>>
    /\ UNCHANGED notSim

\* delete_simulation is called for the simulation
DeleteSimulation ==
    /\ simCall.pc # "dispatching"
    /\ simFiles # {}
    /\ simFiles' = delete_simulation(simFiles)
    /\ UNCHANGED <<attempt, simCall, simJobs>>
    /\ UNCHANGED notSim

\* a call that returns or raises at once
SimReturns(op, outcome) ==
    simCall' = [op |-> op, pc |-> IF outcome \in {"None", "CompressionReport"}
                                  THEN "returned" ELSE "raised",
                host |-> None, outcome |-> outcome,
                before |-> get_simulation_status(simFiles)]

\* the status of the simulation is asked for, with the function of
\* simulation/actions.py or with the one of simulation/host_localized.py
GetSimulationStatus(module) ==
    /\ simCall.pc # "dispatching"
    /\ LET status == IF module = "actions" THEN get_simulation_status(simFiles)
                     ELSE HL_get_simulation_status(simFiles)
       IN  simCall' = [op |-> "get_simulation_status",
                       pc |-> IF status = UNFINISHED THEN "raised" ELSE "returned",
                       host |-> module, outcome |-> status,
                       before |-> get_simulation_status(simFiles)]
    /\ UNCHANGED <<simFiles, attempt, simJobs>>
    /\ UNCHANGED notSim

\* compress_simulation; ok: the relative error stays under the limit; n: the
\* raw files removed before an OSError, or all
CompressSimulation(precision, ok, n) ==
    /\ simCall.pc # "dispatching"
    /\ IF simFiles = {}
       THEN SimReturns("compress", "ValueError") /\ UNCHANGED simFiles
       ELSE IF get_simulation_status(simFiles) = UNFINISHED
       THEN SimReturns("compress", UNFINISHED) /\ UNCHANGED simFiles
       ELSE IF get_simulation_status(simFiles) # FINISHED
       THEN SimReturns("compress", "CompressionError") /\ UNCHANGED simFiles
       ELSE IF _compressed_particle_path(simFiles) # {}
       THEN SimReturns("compress", "FileExistsError") /\ UNCHANGED simFiles
       ELSE IF _particle_paths(simFiles) = <<>>
       THEN SimReturns("compress", "None") /\ UNCHANGED simFiles
       ELSE IF ~ok
       THEN SimReturns("compress", "CompressionError") /\ UNCHANGED simFiles
       ELSE /\ n <= Len(_particle_paths(simFiles))
            /\ SimReturns("compress",
                          IF n = Len(_particle_paths(simFiles))
                          THEN "CompressionReport" ELSE "OSError")
            /\ simFiles' = compressed(simFiles, precision, n, attempt)
    /\ UNCHANGED <<attempt, simJobs>>
    /\ UNCHANGED notSim

\* uncompress_simulation; n: the arrays written before a ValueError, or all
UncompressSimulation(n) ==
    /\ simCall.pc # "dispatching"
    /\ IF simFiles = {}
       THEN SimReturns("uncompress", "ValueError") /\ UNCHANGED simFiles
       ELSE IF Cardinality(_compressed_particle_path(simFiles)) > 1
       THEN SimReturns("uncompress", "FileNotFoundError") /\ UNCHANGED simFiles
       ELSE IF _compressed_particle_path(simFiles) = {}
       THEN SimReturns("uncompress", "None") /\ UNCHANGED simFiles
       ELSE LET archive == CHOOSE f \in _compressed_particle_path(simFiles) : TRUE
            IN  /\ n <= Cardinality(archive.content)
                /\ IF n = Cardinality(archive.content)
                   THEN /\ SimReturns("uncompress", "CompressionReport")
                        /\ simFiles' = uncompressed(simFiles, archive, attempt)
                   ELSE /\ SimReturns("uncompress", "CompressionError")
                        /\ simFiles' = savetxt(simFiles, archive, n, attempt)
    /\ UNCHANGED <<attempt, simJobs>>
    /\ UNCHANGED notSim

InitSim == SimIdle /\ CfgIdle /\ ListIdle /\ DispIdle /\ LocalIdle /\ PayloadIdle /\ FieldIdle /\ RenewIdle

NextSim ==
    \/ \E host \in Hosts, stored \in BOOLEAN :
          DispatchSimulationRun(host, stored)
    \/ \E host \in Hosts, stored \in BOOLEAN :
          RedispatchSimulationRun(host, stored)
    \/ \E outcome \in Outcomes : SimSubmitted(outcome)
    \/ \E out \in OutTexts, err \in ErrTexts, keys \in KeySets,
          timedOut \in BOOLEAN : SimLocalRunEnds(out, err, keys, timedOut)
    \/ \E j \in 1 .. MaxAttempts, out \in OutTexts, err \in ErrTexts,
          keys \in KeySets, succeeded \in BOOLEAN :
          SimJobRuns(j, out, err, keys, succeeded)
    \/ DeleteSimulation
    \/ \E precision \in Precisions, ok \in BOOLEAN, n \in 0 .. Len(Keys) :
          CompressSimulation(precision, ok, n)
    \/ \E n \in 0 .. Len(Keys) : UncompressSimulation(n)
    \/ \E module \in {"actions", "host_localized"} : GetSimulationStatus(module)

SpecSim == InitSim /\ [][NextSim]_vars

\* ------------------------------------------- the payload of a submission

\* the optional values of the configuration that go into the job data, each
\* unset or set
OptionConfigs ==
    [partition   : {<<>>, <<"default">>},
     nice        : {<<>>, <<"5">>},
     constraints : {<<>>, <<"gpu">>}]

\* arguments of a command: without whitespace, with a space, with a tab
Args == {<<"a">>, <<"a", " ", "b">>, <<"a", "\t", "b">>}

Commands == UNION {[1 .. n -> Args] : n \in 1 .. MaxArgs}

\* quote of _dispatch_command
quote(s) == IF " " \in Range(s) THEN <<"\"">> \o s \o <<"\"">> ELSE s

RECURSIVE join(_, _)
\* str.join
join(sep, parts) ==
    IF parts = <<>> THEN <<>>
    ELSE IF Len(parts) = 1 THEN parts[1]
    ELSE parts[1] \o sep \o join(sep, Tail(parts))

\* cmd of _dispatch_command: the line of the job script that runs the command
cmd(command) == join(<<" ">>, Map(command, quote))

\* _dispatch_command: the keys of data["job"] that come from optional values
\* of the configuration; a value <<>> is None and is sent as null
JobOptions(config) ==
    {[key |-> "partition", value |-> config.partition]}
    \cup IF IsSet(config.constraints)
         THEN {[key |-> "constraints", value |-> config.constraints]}
         ELSE {}

\* _dispatch_command up to the request: the script and the job data
BuildPayload ==
    /\ payload = NoPayload
    /\ payload' = [cmd     |-> cmd(request.command),
                   options |-> JobOptions(request.config)]
    /\ UNCHANGED request
    /\ UNCHANGED notPayload

InitPayload ==
    /\ request \in [config : OptionConfigs, command : Commands]
    /\ payload = NoPayload
    /\ CfgIdle /\ ListIdle /\ DispIdle /\ LocalIdle /\ SimIdle /\ FieldIdle /\ RenewIdle

NextPayload == BuildPayload

SpecPayload == InitPayload /\ [][NextPayload]_vars

\* ------------------------------------------- field tables and their links

\* the names a caller may give for a field file; "./f.dat" is another
\* spelling of the path of "f.dat"
FieldNames == {"f.dat", "./f.dat", "g.dat"}

\* the names a caller may give to the link to the initial distribution
DistributionNames == {"dist.ini", "g.dat"}

\* os.path.join(directory, file_name), resolved: the entry of the directory
realpath(file_name) == IF file_name = "./f.dat" THEN "f.dat" ELSE file_name

\* a symlink: the directory it is in, its entry there, the file it resolves to
Link(dir, name, target) == [dir |-> dir, name |-> name, target |-> target]

\* _link_initial_particle_distribution
_link_initial_particle_distribution(ls, run_dir, name) ==
    ls \cup {Link(run_dir, realpath(name), "distribution.ini")}

\* _link_field_file: os.symlink raises when the entry exists
_link_field_file(ls, run_dir, file_name) ==
    IF \E l \in ls : l.dir = run_dir /\ l.name = realpath(file_name)
    THEN ls
    ELSE ls \cup {Link(run_dir, realpath(file_name), realpath(file_name))}

\* find_symlinks with a link_name: the links whose entry is link_name and
\* which resolve to the target
find_symlinks(ls, target_file, link_name) ==
    {l \in ls : l.name = link_name /\ l.target = realpath(target_file)}

\* delete_field_table: what it returns and the field files it leaves
delete_field_table(fs, ls, file_name, force) ==
    LET path == realpath(file_name)
        blocking == find_symlinks(ls, file_name, file_name)
    IN  IF path \notin fs THEN [returned |-> {}, files |-> fs]
        ELSE IF ~force /\ blocking # {}
        THEN [returned |-> blocking, files |-> fs]
        ELSE [returned |-> {}, files |-> fs \ {path}]

\* write_field_table; an existing table raises FileExistsError
WriteFieldTable(file_name) ==
    /\ fieldFiles' = fieldFiles \cup {realpath(file_name)}
    /\ fieldCall' = [NoFieldCall EXCEPT !.op = "write_field_table",
                                        !.file_name = file_name,
                                        !.existed = realpath(file_name) \in fieldFiles]
    /\ UNCHANGED links
    /\ UNCHANGED notField

\* write_simulation_files of a new simulation with one field file
WriteSimulationLinks(run_dir, distribution_file_name, field_file_name) ==
    /\ ~\E l \in links : l.dir = run_dir
    /\ links' = _link_field_file(
                    _link_initial_particle_distribution(
                        links, run_dir, distribution_file_name),
                    run_dir, field_file_name)
    /\ UNCHANGED <<fieldFiles, fieldCall>>
    /\ UNCHANGED notField

\* delete_simulation removes the directory with its links
DeleteSimulationLinks(run_dir) ==
    /\ \E l \in links : l.dir = run_dir
    /\ links' = {l \in links : l.dir # run_dir}
    /\ UNCHANGED <<fieldFiles, fieldCall>>
    /\ UNCHANGED notField

DeleteFieldTable(file_name, force) ==
    LET out == delete_field_table(fieldFiles, links, file_name, force)
    IN  /\ fieldFiles' = out.files
        /\ fieldCall' = [op |-> "delete_field_table", file_name |-> file_name,
                         force |-> force,
                         existed |-> realpath(file_name) \in fieldFiles,
                         returned |-> out.returned]
        /\ UNCHANGED links
        /\ UNCHANGED notField

InitField ==
    /\ FieldIdle /\ RenewIdle
    /\ CfgIdle /\ ListIdle /\ DispIdle /\ LocalIdle /\ SimIdle /\ PayloadIdle

NextField ==
    \/ \E file_name \in FieldNames : WriteFieldTable(file_name)
    \/ \E run_dir \in {IdA, IdB}, d \in DistributionNames, f \in FieldNames :
          WriteSimulationLinks(run_dir, d, f)
    \/ \E run_dir \in {IdA, IdB} : DeleteSimulationLinks(run_dir)
    \/ \E file_name \in FieldNames, force \in BOOLEAN :
          DeleteFieldTable(file_name, force)

SpecField == InitField /\ [][NextField]_vars

\* ------------------------------------------- the renewal of the token

\* the values a caller gives for max_age_hours
MaxAgeArgs == {1, 2}

\* a call of a hook and its argument
HookCall(hook, arg) == [hook |-> hook, arg |-> arg]

\* the check at the start: a renewal is due unless the last one is less than
\* max_age_hours old
renewal_due_always(last, now, max_age_hours) == TRUE

renewal_due(last, now, max_age_hours) ==
    last = <<>> \/ ~(now - last[1] < max_age_hours)

\* register_get_new_slurm_token_hook, register_update_slurm_token_hook and
\* register_check_slurm_token_hook
RegisterHook(hook) ==
    /\ hook \notin hooks
    /\ hooks' = hooks \cup {hook}
    /\ UNCHANGED <<clock, _last_token_renewal, renew>>
    /\ UNCHANGED notRenew

\* an hour passes
Tick ==
    /\ clock < MaxClock
    /\ clock' = clock + 1
    /\ UNCHANGED <<_last_token_renewal, hooks, renew>>
    /\ UNCHANGED notRenew

\* renew_slurm_token_if_needed is called: it skips, raises without a get hook,
\* or calls the get hook
RenewBegin(max_age_hours) ==
    /\ renew.pc \notin {"get", "update", "check"}
    /\ renew' = [renew EXCEPT
                    !.max_age_hours = max_age_hours,
                    !.token = None,
                    !.called = IF renewal_due(_last_token_renewal, clock,
                                              max_age_hours)
                                  /\ "get" \in hooks
                               THEN <<HookCall("get", None)>> ELSE <<>>,
                    !.pc = IF ~renewal_due(_last_token_renewal, clock,
                                           max_age_hours)
                           THEN "skipped"
                           ELSE IF "get" \in hooks THEN "get" ELSE "raised"]
    /\ UNCHANGED <<clock, _last_token_renewal, hooks>>
    /\ UNCHANGED notRenew

\* the get hook raises
GetRaises ==
    /\ renew.pc = "get"
    /\ renew' = [renew EXCEPT !.pc = "raised"]
    /\ UNCHANGED <<clock, _last_token_renewal, hooks>>
    /\ UNCHANGED notRenew

\* the get hook gives the token: the time is noted, and the update hook is
\* called with the token, or the call raises without one
GetReturns(token) ==
    /\ renew.pc = "get"
    /\ _last_token_renewal' = <<clock>>
    /\ renew' = [renew EXCEPT
                    !.token = token,
                    !.called = IF "update" \in hooks
                               THEN Append(@, HookCall("update", token)) ELSE @,
                    !.pc = IF "update" \in hooks THEN "update" ELSE "raised"]
    /\ UNCHANGED <<clock, hooks>>
    /\ UNCHANGED notRenew

\* the update hook raises
UpdateRaises ==
    /\ renew.pc = "update"
    /\ renew' = [renew EXCEPT !.pc = "raised"]
    /\ UNCHANGED <<clock, _last_token_renewal, hooks>>
    /\ UNCHANGED notRenew

\* the update hook returns: the check hook is called, or the call raises
\* without one
UpdateReturns ==
    /\ renew.pc = "update"
    /\ renew' = [renew EXCEPT
                    !.called = IF "check" \in hooks
                               THEN Append(@, HookCall("check", None)) ELSE @,
                    !.pc = IF "check" \in hooks THEN "check" ELSE "raised"]
    /\ UNCHANGED <<clock, _last_token_renewal, hooks>>
    /\ UNCHANGED notRenew

\* what the check hook can end with
CheckResults == {"True", "False", "None", "raises"}

\* the check hook ends: True and None let the call return, False and an
\* exception make it raise
CheckEnds(ok) ==
    /\ renew.pc = "check"
    /\ renew' = [renew EXCEPT
                    !.pc = IF ok \in {"True", "None"} THEN "returned" ELSE "raised",
                    !.renewed = IF ok \in {"True", "None"}
                                THEN _last_token_renewal ELSE @]
    /\ UNCHANGED <<clock, _last_token_renewal, hooks>>
    /\ UNCHANGED notRenew

InitRenew ==
    /\ RenewIdle /\ FieldIdle
    /\ CfgIdle /\ ListIdle /\ DispIdle /\ LocalIdle /\ SimIdle /\ PayloadIdle

NextRenew ==
    \/ \E hook \in {"get", "update", "check"} : RegisterHook(hook)
    \/ Tick
    \/ \E max_age_hours \in MaxAgeArgs : RenewBegin(max_age_hours)
    \/ GetRaises
    \/ \E token \in TokenArgs : GetReturns(token)
    \/ UpdateRaises
    \/ UpdateReturns
    \/ \E ok \in CheckResults : CheckEnds(ok)

SpecRenew == InitRenew /\ [][NextRenew]_vars

\* ------------------------------------------- claims on the configuration

\* C1: every value an open SLURM call (dispatch, ping, diagnose, list_jobs)
\* has taken from the configuration, in its body and in its request, is the
\* value that field had in the one configuration current when the call
\* started, whatever configure and update_user_token did since.
C1_ValuesFromOneSnapshot ==
    \A c \in CallIds :
        LET k == calls[c] IN
        /\ (k.pc \in {"body", "inflight"} /\ k.kind = "dispatch") =>
              /\ k.body.script_setup = k.start.script_setup
              /\ k.body.partition = k.start.partition
              /\ k.body.constraints = k.start.constraints
              /\ k.body.environment = k.start.environment
              /\ k.body.output_path = k.start.output_path
        /\ (k.pc \in {"body", "inflight"} /\ k.kind = "list_jobs") =>
              k.body.users = k.start.user_name
        /\ k.pc = "inflight" =>
              /\ k.req.url = k.start.base_url
              /\ k.req.api_version = k.start.api_version
              /\ k.req.proxy_url = k.start.proxy_url
              /\ k.req.user_name = k.start.user_name
              /\ k.req.user_token = k.start.user_token
              /\ k.req.headers.name = k.start.user_name
              /\ k.req.headers.token = k.start.user_token

\* a dispatch is in flight while the configuration has been replaced and its
\* token refreshed
C1_Witness ==
    \E c \in CallIds :
        /\ calls[c].pc = "inflight"
        /\ calls[c].kind = "dispatch"
        /\ Configuration.base_url # calls[c].start.base_url
        /\ Configuration.user_token \in TokenArgs

\* C2: after update_user_token(t) the configuration's user_token is t and
\* every other field has the value it had before the call.
C2_UpdateTokenChangesOnlyToken ==
    lastOp.op = "update_user_token" =>
        /\ Configuration.user_token = lastOp.token
        /\ \A f \in ConfigFields \ {"user_token"} :
              Configuration[f] = lastOp.before[f]

\* a token update on a configuration installed by configure
C2_Witness ==
    /\ lastOp.op = "update_user_token"
    /\ lastOp.before \in ConfigArgs
    /\ Configuration.user_token = lastOp.token

\* C3: once configure has been called, the configuration read back is the
\* argument of the last configure, with its token replaced by the argument of
\* the last update_user_token made after it, if there was one.
C3_LastConfigureThenLastToken ==
    lastConfigure # NoConfig =>
        Configuration =
            IF lastToken = None
            THEN lastConfigure
            ELSE [lastConfigure EXCEPT !.user_token = lastToken]

\* a configure that replaced a configuration whose token had been refreshed,
\* followed by another refresh
C3_Witness ==
    /\ lastConfigure # NoConfig
    /\ lastToken # None
    /\ clsConfig # NoConfig
    /\ clsConfig.user_token \in TokenArgs
    /\ clsConfig.user_token # lastToken

\* ------------------------------------------------ claims on the listings

\* the job passes a request for the states of `state`; no state asked for
\* lets every job pass
Requested(job, state) ==
    state = {} \/ \E x \in Range(job.current) : lower(x) \in state

\* the scheduler's jobs (of the states asked for) named prefix + id
JobsNamed(prefix, id, state) ==
    {i \in DOMAIN slurmJobs :
        /\ slurmJobs[i].name = prefix \o id
        /\ Requested(slurmJobs[i], state)}

JobsOfPrefix(prefix, state) ==
    {i \in DOMAIN slurmJobs :
        /\ startswith(slurmJobs[i].name, prefix)
        /\ Requested(slurmJobs[i], state)}

\* C5: a listing reports a job iff one of its current states is among the
\* states asked for, and drops no job for its state when none is asked for
\* (an empty set, None).
C5_StateFilterOptional ==
    /\ listing.op = "HL_list_jobs" =>
          listing.jobs =
              SelectSeq(slurmJobs, LAMBDA j : Requested(j, listing.state))
    /\ listing.op = "list_dispatched_ids_by_state" =>
          /\ Len(listing.particles) =
                Cardinality(JobsOfPrefix(GENERATE_DISPATCH_NAME_PREFIX, listing.state))
          /\ Len(listing.simulations) =
                Cardinality(JobsOfPrefix(SIMULATE_DISPATCH_NAME_PREFIX, listing.state))

\* how often the scheduler's job i is in the list
TimesListed(list, i) ==
    Cardinality({k \in DOMAIN list : list[k].slurm.id = slurmJobs[i].job_id})

\* C6: list_jobs puts a job into the generation list iff its name starts with
\* generate-, into the simulation list iff it starts with simulate-, once, and
\* every listed record is a job of the scheduler.
C6_ListJobsPartition ==
    listing.op = "list_jobs" =>
        /\ \A i \in DOMAIN slurmJobs :
              /\ TimesListed(listing.particles, i) =
                    IF startswith(slurmJobs[i].name, GENERATE_DISPATCH_NAME_PREFIX)
                    THEN 1 ELSE 0
              /\ TimesListed(listing.simulations, i) =
                    IF startswith(slurmJobs[i].name, SIMULATE_DISPATCH_NAME_PREFIX)
                    THEN 1 ELSE 0
              /\ TimesListed(listing.particles, i)
                    + TimesListed(listing.simulations, i) <= 1
        /\ \A list \in {listing.particles, listing.simulations} :
              \A k \in DOMAIN list :
                  \E i \in DOMAIN slurmJobs :
                      /\ list[k].slurm.id = slurmJobs[i].job_id
                      /\ list[k].slurm.name = slurmJobs[i].name

\* a simulation job and a job of neither prefix: the first is in the
\* simulation list alone and the second is dropped
C6_Witness ==
    /\ listing.op = "list_jobs"
    /\ \E i, j \in DOMAIN slurmJobs :
          /\ slurmJobs[i].name = SIMULATE_DISPATCH_NAME_PREFIX \o IdB
          /\ slurmJobs[j].name = COMPRESS_DISPATCH_NAME_PREFIX \o IdA
    /\ listing.particles = <<>>
    /\ Len(listing.simulations) = 1

\* ---------------------------------------------- claims on SLURM dispatch

\* C7: the time limit of the submitted job is set iff at least one task has a
\* timeout, and its number is the integer floor of the sum of the set
\* timeouts (seconds) divided by 60; with no timeout it is unset and 0.
C7_TimeLimitInMinutes ==
    sub.pc \in {"posted", "returned"} /\ sub.tasks # <<>> =>
        /\ sub.job.time_limit.set
              <=> \E i \in DOMAIN sub.tasks : IsSet(sub.tasks[i].timeout)
        /\ sub.job.time_limit.number = SumTimeouts(sub.tasks) \div 60

\* C8: every failure of the job/submit request reaches the caller of dispatch
\* as the wrapped dispatch error naming the command and working directory.
C8_SubmitFailureWrapped ==
    sub.pc = "returned" /\ sub.outcome \notin {None, "ok"} =>
        /\ sub.result.kind = "RuntimeError"
        /\ sub.result.message = "Failed to dispatch command"
        /\ sub.result.command = Map(sub.tasks, LAMBDA t : t.command)
        /\ sub.result.cwd = Map(sub.tasks, LAMBDA t : t.cwd)

\* C9: a dispatch that submits a batch has sent exactly one request, a POST
\* to job/submit, from the submission on and after its success or failure,
\* whatever the number of tasks; nothing is sent again after a failure.
C9_OnePostPerDispatch ==
    sub.pc \in {"posted", "returned"} /\ sub.tasks # <<>> =>
        posts = <<[method |-> "POST", endpoint |-> "job/submit"]>>

\* a batch of two tasks was submitted, the submission failed, and the one
\* POST is all that was sent
C9_Witness ==
    /\ sub.pc = "returned"
    /\ sub.backend = "actor"
    /\ Len(sub.tasks) = 2
    /\ sub.outcome = "RuntimeError"
    /\ sub.result.kind = "RuntimeError"
    /\ Len(posts) = 1

\* --------------------------------------------- claims on the local batch

\* C10: a task of a local batch is started only after every earlier task has
\* completed without timing out.
C10_NoStartAfterTimeout ==
    \A k \in DOMAIN batch.started :
        \A i \in 1 .. batch.started[k] - 1 :
            /\ i \in batch.completed
            /\ i \notin batch.timedOut

\* task 1 of a two-task batch timed out and task 2 was never started
C10_Witness ==
    /\ batch.pc = "raised"
    /\ Len(batch.tasks) = 2
    /\ batch.timedOut = {1}
    /\ batch.started = <<1>>
    /\ batch.result.kind = "TimeoutExpired"

\* C11: a local task that exceeds its timeout has its process killed, the
\* dispatch call ends by raising TimeoutExpired, never with a response, and
\* the task is not started a second time.
C11_TimeoutKillsAndFails ==
    batch.timedOut # {} =>
        /\ batch.pc = "raised"
        /\ batch.result.kind = "TimeoutExpired"
        /\ \A k \in DOMAIN batch.started :
              /\ batch.started[k] \in batch.timedOut => batch.procs[k] = "killed"
              /\ batch.procs[k] # "running"
              /\ \A l \in DOMAIN batch.started :
                    batch.started[l] = batch.started[k] => l = k

\* a simulation dispatched through the local host localizer ran into its
\* timeout: the process is killed and the call has raised
C11_Witness ==
    /\ batch.backend = "hl"
    /\ batch.pc = "raised"
    /\ batch.timedOut = {1}
    /\ batch.procs = <<"killed">>
    /\ batch.result.kind = "TimeoutExpired"

\* ------------------------------------------- claims on the empty batch

\* C12: dispatching the empty batch returns a response without submission
\* and without response payload on both back-ends, and does no I/O: no
\* request is sent, no process is started and no file is touched.
C12_EmptyBatchNoIO ==
    /\ [](sub.pc = "returned" /\ sub.backend = "actor" /\ sub.tasks = <<>> =>
            /\ sub.result.kind = "DispatchResponse"
            /\ sub.result.slurm_submission = NoJob
            /\ sub.result.slurm_response = "None"
            /\ posts = <<>>)
    /\ [](batch.pc = "returned" /\ batch.backend = "actor" /\ batch.tasks = <<>> =>
            /\ batch.result = [kind |-> "DispatchResponse", dispatch_type |-> "local"]
            /\ batch.started = <<>>
            /\ batch.procs = <<>>)
    /\ [][batch' # batch /\ batch'.pc = "returned" /\ batch'.tasks = <<>> =>
            files' = files]_vars

\* the empty batch has been dispatched to both back-ends after a task had
\* left its files in the working directory
C12_Witness ==
    /\ sub.pc = "returned" /\ sub.backend = "actor" /\ sub.tasks = <<>>
    /\ batch.pc = "returned" /\ batch.backend = "actor" /\ batch.tasks = <<>>
    /\ files # {}
    /\ posts = <<>>

\* -------------------------------------- claims on the files of a local task

\* the files at the path of an output file of a task
FilesAt(task, ext) ==
    {f \in files : /\ f.cwd = task.cwd
                   /\ f.name = task.output_file_name_base
                   /\ f.ext = ext}

\* C13: after a local task has run, its .out file exists iff the command
\* wrote something to stdout and its .err file exists iff it wrote something
\* to stderr; no file of length zero is left.
C13_OutputFilesIffNonEmpty ==
    batch.pc = "returned" /\ batch.tasks # <<>> =>
        LET task == batch.tasks[batch.i]
        IN  /\ FilesAt(task, ".out") # {} <=> batch.output[1]
            /\ FilesAt(task, ".err") # {} <=> batch.output[2]
            /\ \A f \in FilesAt(task, ".out") \cup FilesAt(task, ".err") :
                  f.content # "empty"

\* ------------------------------------------------ claims on re-dispatch

C15_SimulationIsOneBatch ==
    sub.call.op = "dispatch_simulation" =>
        /\ Len(sub.batches) = 1
        /\ Map(sub.batches[1], LAMBDA t : t.name) =
              IF sub.call.input.auto_compress_after_run
              THEN <<SIMULATE_DISPATCH_NAME_PREFIX \o sub.call.input.id,
                     COMPRESS_DISPATCH_NAME_PREFIX \o sub.call.input.id>>
              ELSE <<SIMULATE_DISPATCH_NAME_PREFIX \o sub.call.input.id>>
        /\ sub.tasks = sub.batches[1]

\* a simulation with auto-compression was dispatched: one batch of two tasks
C15_Witness ==
    /\ sub.call.op = "dispatch_simulation"
    /\ sub.call.input.auto_compress_after_run
    /\ sub.pc = "returned"
    /\ sub.outcome = "ok"
    /\ Len(sub.batches) = 1
    /\ Len(sub.tasks) = 2

\* -------------------------------------------------- claims on the payload

\* C16: the job data holds the keys partition, nice and constraints exactly
\* for the values that are set in the configuration, and none with null.
C16_OptionalKeysIffSet ==
    payload # NoPayload =>
        /\ \A k \in {"partition", "nice", "constraints"} :
              (\E o \in payload.options : o.key = k) <=> IsSet(request.config[k])
        /\ \A o \in payload.options : IsSet(o.value)

\* the characters that are whitespace
Whitespace == {" ", "\t"}

\* C17: in the job script every argument with whitespace is quoted, every
\* other argument is not, and the arguments keep their order.
C17_QuotedIffWhitespace ==
    payload # NoPayload =>
        payload.cmd =
            join(<<" ">>,
                 Map(request.command,
                     LAMBDA s : IF Range(s) \cap Whitespace # {}
                                THEN <<"\"">> \o s \o <<"\"">>
                                ELSE s))

\* ------------------------------------------- claims on the name of a job

\* the name the claim gives a batch whose tasks share the id: the prefixes in
\* task order with commas between them, "-", and the id
SharedIdName(tasks) ==
    LET n == Len(tasks)
        part(i) == SplitName(tasks[i].name)
        prefixes[k \in 1 .. n] ==
            IF k = 1 THEN part(1).prefix
            ELSE prefixes[k - 1] \o <<",">> \o part(k).prefix
    IN  prefixes[n] \o <<"-">> \o part(1).id

\* C18: a batch whose task names all have the same id part is submitted
\* under the prefixes joined by commas in task order, then "-" and the id.
C18_NameOfSharedId ==
    /\ sub.backend = "actor"
    /\ sub.tasks # <<>>
    /\ \A i, j \in DOMAIN sub.tasks :
          SplitName(sub.tasks[i].name).id = SplitName(sub.tasks[j].name).id
    => sub.job.name = SharedIdName(sub.tasks)

\* the tasks generate-A and simulate-A were submitted as generate,simulate-A
C18_Witness ==
    /\ sub.backend = "actor"
    /\ Len(sub.tasks) = 2
    /\ sub.tasks[1].name = GENERATE_DISPATCH_NAME_PREFIX \o IdA
    /\ sub.tasks[2].name = SIMULATE_DISPATCH_NAME_PREFIX \o IdA
    /\ sub.job.name = <<"g", "e", "n", "e", "r", "a", "t", "e", ",",
                        "s", "i", "m", "u", "l", "a", "t", "e", "-", "A">>

\* ------------------------------------------ claims on a missing environment

\* C19: while a required SLURM environment value is missing, every call of
\* instance() fails, and none returns an actor without configuration.
C19_MissingEnvAlwaysFails ==
    lastOp.op = "instance" =>
        /\ ~envComplete => lastOp.outcome = "KeyError"
        /\ lastOp.outcome = "returned" => Configuration # NoConfig

\* C20: uncompress_simulation is idempotent. Called for an existing simulation
\* without a compressed file it returns None and changes no file; a call that
\* returned its report leaves no compressed file, so the next call changes
\* nothing.
C20_UncompressIdempotent ==
    /\ [][/\ simCall'.op = "uncompress"
            /\ simFiles # {}
            /\ _compressed_particle_path(simFiles) = {}
            /\ \E n \in 0 .. Len(Keys) : UncompressSimulation(n)
          => /\ simCall'.pc = "returned"
             /\ simCall'.outcome = "None"
             /\ simFiles' = simFiles]_vars
    /\ [](simCall.op = "uncompress" /\ simCall.outcome = "CompressionReport"
            => _compressed_particle_path(simFiles) = {})
    /\ [][/\ simCall.op = "uncompress"
            /\ simCall.outcome = "CompressionReport"
            /\ \E n \in 0 .. Len(Keys) : UncompressSimulation(n)
          => simFiles' = simFiles]_vars

C20_Witness ==
    /\ simCall.op = "uncompress"
    /\ simCall.pc = "returned"
    /\ simCall.outcome = "None"
    /\ Len(_particle_paths(simFiles)) = Len(Keys)
    /\ \A k \in Range(Keys) :
          \A f \in Named(simFiles, RawName(k)) : f.content = {"savetxt"}

\* C21: compress_simulation refuses and changes no file of the simulation when
\* the simulation does not exist (ValueError), when it is not FINISHED
\* (CompressionError) and when it is already compressed (FileExistsError).
C21_CompressRefuses ==
    [][/\ simCall'.op = "compress"
       /\ \E precision \in Precisions, ok \in BOOLEAN, n \in 0 .. Len(Keys) :
             CompressSimulation(precision, ok, n)
       => /\ simFiles = {}
               => simCall'.outcome = "ValueError" /\ simFiles' = simFiles
          /\ simFiles # {} /\ get_simulation_status(simFiles) # FINISHED
               => simCall'.outcome = "CompressionError" /\ simFiles' = simFiles
          /\ simFiles # {} /\ get_simulation_status(simFiles) = FINISHED
                /\ _compressed_particle_path(simFiles) # {}
               => simCall'.outcome = "FileExistsError" /\ simFiles' = simFiles]_vars

\* C22: a delete_field_table without force never removes a field file that
\* a symlink under the data path resolves to: it returns those links and the
\* file stays.
C22_ReferencedFieldStays ==
    [][/\ fieldCall'.op = "delete_field_table"
       /\ ~fieldCall'.force
       /\ DeleteFieldTable(fieldCall'.file_name, fieldCall'.force)
       /\ realpath(fieldCall'.file_name) \in fieldFiles
       /\ \E l \in links : l.target = realpath(fieldCall'.file_name)
       => /\ fieldFiles' = fieldFiles
          /\ fieldCall'.returned =
                {l \in links : l.target = realpath(fieldCall'.file_name)}]_vars

\* C23: for every job list_jobs reports, the id is the job's name without its
\* one matching prefix: the name of a generation job is generate- followed by
\* the id and the name of a simulation job is simulate- followed by the id.
C23_IdIsNameWithoutPrefix ==
    listing.op = "list_jobs" =>
        /\ \A i \in DOMAIN listing.particles :
              listing.particles[i].slurm.name =
                  GENERATE_DISPATCH_NAME_PREFIX \o listing.particles[i].id
        /\ \A i \in DOMAIN listing.simulations :
              listing.simulations[i].slurm.name =
                  SIMULATE_DISPATCH_NAME_PREFIX \o listing.simulations[i].id

\* C24: renew_slurm_token_if_needed calls no hook when the last renewal is
\* less than max_age_hours old; otherwise it calls the registered hooks in the
\* order get, update with the token just obtained, check, each at most once.
C24_HooksInOrder ==
    /\ [][/\ renew.pc \notin {"get", "update", "check"}
           /\ RenewBegin(renew'.max_age_hours)
           => IF /\ _last_token_renewal # <<>>
                 /\ clock - _last_token_renewal[1] < renew'.max_age_hours
              THEN renew'.pc = "skipped" /\ renew'.called = <<>>
              ELSE ("get" \in hooks
                        => renew'.called = <<HookCall("get", None)>>)]_vars
    /\ [](/\ (renew.pc = "skipped" => renew.called = <<>>)
           /\ (renew.pc = "returned" => Len(renew.called) = 3)
           /\ Len(renew.called) <= 3
           /\ (Len(renew.called) >= 1
                 => renew.called[1] = HookCall("get", None))
           /\ (Len(renew.called) >= 2
                 => renew.called[2] = HookCall("update", renew.token))
           /\ (Len(renew.called) >= 3
                 => renew.called[3] = HookCall("check", None)))

C24_Witness ==
    /\ renew.pc = "skipped"
    /\ renew.renewed # <<>>
    /\ clock > renew.renewed[1]
    /\ hooks = {"get", "update", "check"}

\* C25: an attempt that fails after the token was obtained does not count as
\* a renewal: a call is skipped only when a renewal that succeeded is less
\* than max_age_hours old.
C25_FailedAttemptDoesNotCount ==
    [][/\ renew.pc \notin {"get", "update", "check"}
       /\ RenewBegin(renew'.max_age_hours)
       /\ \/ renew.renewed = <<>>
          \/ ~(clock - renew.renewed[1] < renew'.max_age_hours)
       => renew'.pc # "skipped"]_vars

\* C26: re-dispatching a simulation without input.json raises
\* FileNotFoundError and changes nothing: no file of the directory is deleted
\* or rewritten and nothing is dispatched.
C26_RedispatchWithoutInput ==
    [][/\ simCall'.op = "redispatch"
       /\ Named(simFiles, "input.json") = {}
       /\ \E host \in Hosts, stored \in BOOLEAN :
              RedispatchSimulationRun(host, stored)
       => /\ simCall'.pc = "raised"
          /\ simCall'.outcome = "FileNotFoundError"
          /\ simFiles' = simFiles
          /\ simJobs' = simJobs]_vars

C26_Witness ==
    /\ simCall.op = "redispatch"
    /\ simCall.outcome = "FileNotFoundError"
    /\ Named(simFiles, "input.json") = {}
    /\ Named(simFiles, "run.out") # {}

\* the particle checkpoints on disk, raw or in the archive
Checkpoints(fs) ==
    {k \in Range(Keys) : Named(fs, RawName(k)) # {}}
        \cup UNION {f.content : f \in _compressed_particle_path(fs)}

\* C27: however compress_simulation and uncompress_simulation end, also with
\* an error part-way, every particle checkpoint is still on disk in a raw file
\* or in the archive: raw files go only once the archive exists, and the
\* archive goes only once every raw file is written.
C27_CheckpointsKept ==
    [][/\ simCall'.op \in {"compress", "uncompress"}
       /\ simJobs' = simJobs
       /\ attempt' = attempt
       /\ simFiles # {}
       /\ \/ \E precision \in Precisions, ok \in BOOLEAN, n \in 0 .. Len(Keys) :
                CompressSimulation(precision, ok, n)
          \/ \E n \in 0 .. Len(Keys) : UncompressSimulation(n)
       => /\ Checkpoints(simFiles) \subseteq Checkpoints(simFiles')
          /\ (\E k \in Range(Keys) : /\ Named(simFiles, RawName(k)) # {}
                                      /\ Named(simFiles', RawName(k)) = {})
               => _compressed_particle_path(simFiles') # {}
          /\ \A f \in _compressed_particle_path(simFiles) :
               f \notin simFiles'
                 => \A k \in f.content : Named(simFiles', RawName(k)) # {}]_vars

C27_Witness ==
    /\ simCall.op = "compress"
    /\ simCall.outcome = "OSError"
    /\ _compressed_particle_path(simFiles) # {}
    /\ _particle_paths(simFiles) # <<>>

\* what counts against a run: text in run.err, or Error or ATTENTION in
\* run.out
FailureEvidence(fs) ==
    \/ \E f \in Named(fs, "run.err") : f.content # {}
    \/ \E f \in Named(fs, "run.out") : f.content \cap {"Error", "ATTENTION"} # {}

\* C28: get_simulation_status never reports FINISHED for a simulation with
\* text in run.err or with Error or ATTENTION in run.out, whatever else
\* run.out holds, and it reports a simulation with neither such evidence nor
\* the line of a finished run as not finished.
C28_FailureEvidenceFirst ==
    [][/\ simCall'.op = "get_simulation_status"
       /\ \E module \in {"actions", "host_localized"} : GetSimulationStatus(module)
       => /\ FailureEvidence(simFiles) => simCall'.outcome # FINISHED
          /\ (/\ ~FailureEvidence(simFiles)
               /\ ~\E f \in Named(simFiles, "run.out") :
                      "finished simulation" \in f.content)
               => /\ simCall'.pc = "returned"
                  /\ simCall'.outcome \notin {FINISHED, FAILED}]_vars

\* C29: instance() always returns the same object, the first one created, and
\* a call of instance() on an existing object changes neither the
\* configuration installed by configure nor the token installed by
\* update_user_token.
C29_OneObjectConfigurationKept ==
    /\ [](objects <= 1)
    /\ [][lastOp'.op = "instance" /\ instance /\ Instance
           => /\ objects' = objects
              /\ Configuration' = Configuration]_vars

C29_Witness ==
    /\ lastOp.op = "instance"
    /\ lastOp.outcome = "returned"
    /\ objects = 1
    /\ lastConfigure # NoConfig
    /\ lastToken # None
    /\ Configuration = [lastConfigure EXCEPT !.user_token = lastToken]

====
